---- MODULE Spec2Model ----
(***************************************************************************)
(* Model of litmus-portal/cluster-agents/subscriber/pkg/k8s/operations.go: *)
(* ClusterOperations and applyRequest acting, through the package-level    *)
(* handle dr, on the cluster's resource store.                             *)
(*                                                                         *)
(* The cluster side (API server, dynamic client, discovery) is modelled by *)
(* what it answers: a store of objects keyed by resource/namespace/name    *)
(* with resource versions, a type catalog, and a nondeterministic          *)
(* "Forbidden" answer standing for every error the code does not absorb.   *)
(***************************************************************************)
EXTENDS Naturals, Sequences, FiniteSets, TLC

\* ------------------------------------------------------------- bounds

\* Calls to ClusterOperations started in one behaviour.
MaxCalls == 2

\* Goroutines that call ClusterOperations.
Procs == {1, 2}

\* Values of the namespace argument; "" is the empty string.
NsArgs == {"", "ns1", "ns2"}

\* Values of the requestType argument; "patch" stands for every other string.
Verbs == {"create", "update", "get", "delete", "patch"}

\* ------------------------------------------------------------ manifests

\* A manifest: json says whether JSONToYAML and Decode accept the document;
\* the other fields are what Decode extracts from it.
Manifest(json, kind, name, labels) ==
    [json |-> json, kind |-> kind, apiVersion |-> "v1", name |-> name, labels |-> labels]

WfLabels == {<<"workflow_id", "w1">>}

Manifests ==
    { Manifest(TRUE, "ConfigMap", "a", {}),
      Manifest(TRUE, "Namespace", "a", {}),
      Manifest(TRUE, "Workflow", "a", WfLabels),
      Manifest(TRUE, "CronWorkflow", "a", {}),
      Manifest(TRUE, "Gadget", "a", {}),
      Manifest(FALSE, "", "", {}) }

\* ------------------------------------------------------- the cluster

\* An object: the resource-type collection it lives in, its namespace ("" for
\* a cluster-wide type), name, labels and resource version.
Object(res, ns, name, labels, rv) ==
    [res |-> res, ns |-> ns, name |-> name, labels |-> labels, rv |-> rv]

\* (*unstructured.Unstructured)(nil), and the empty &unstructured.Unstructured{}.
NilObj == Object("", "", "<nil>", {}, 0)
EmptyObj == Object("", "", "", {}, 0)

\* The type catalog the REST mapper discovers: kind -> resource and scope.
Catalog(kind) ==
    CASE kind = "ConfigMap"    -> [found |-> TRUE, resource |-> "configmaps", scope |-> "namespace"]
      [] kind = "Workflow"     -> [found |-> TRUE, resource |-> "workflows", scope |-> "namespace"]
      [] kind = "CronWorkflow" -> [found |-> TRUE, resource |-> "cronworkflows", scope |-> "namespace"]
      [] kind = "Namespace"    -> [found |-> TRUE, resource |-> "namespaces", scope |-> "root"]
      [] OTHER                 -> [found |-> FALSE, resource |-> "", scope |-> ""]

Kinds == {m.kind : m \in {x \in Manifests : x.json}}

NamespacedResources ==
    {Catalog(k).resource : k \in {x \in Kinds : Catalog(x).found /\ Catalog(x).scope = "namespace"}}

\* Objects that may exist in the cluster before the agent acts (made by other
\* clients: the workflow controller, an administrator).
Preexisting ==
    { Object("configmaps", "ns1", "a", {}, 1),
      Object("configmaps", "ns2", "a", {}, 2),
      Object("workflows", "ns1", "b", WfLabels, 3),
      Object("cronworkflows", "ns1", "b", {}, 4),
      Object("namespaces", "", "a", {}, 5) }

\* The store stamps every write with a fresh, larger resource version.
FirstRV == Cardinality(Preexisting) + 1

\* ------------------------------------------ the dynamic resource client

\* A bound resource handle (dynamic.ResourceInterface): a resource-type
\* collection and a namespace; ns = "" is what Resource(r) alone gives.
Handle(resource, ns) == [resource |-> resource, ns |-> ns]
NoHandle == Handle("", "")

\* The server serves a namespaced type by name only under a namespace.
Addressable(h) == ~(h.resource \in NamespacedResources /\ h.ns = "")

At(s, h, name) == {o \in s : o.res = h.resource /\ o.ns = h.ns /\ o.name = name}

Resp(err, obj, s) == [err |-> err, obj |-> obj, store |-> s]

\* dr.Get(name): the stored object, or NotFound.
StoreGet(s, h, name) ==
    IF ~Addressable(h) \/ At(s, h, name) = {}
      THEN Resp("NotFound", NilObj, s)
      ELSE Resp("nil", CHOOSE o \in At(s, h, name) : TRUE, s)

\* The server refuses an object whose kind is not the collection's.
Fits(h, obj) == Catalog(obj.kind).resource = h.resource

\* dr.Create(obj): AlreadyExists when the name is taken, else the object is
\* stored under the handle's namespace with a fresh resource version.
StoreCreate(s, h, obj, rv) ==
    IF ~Addressable(h) THEN Resp("MethodNotAllowed", NilObj, s)
    ELSE IF ~Fits(h, obj) THEN Resp("BadRequest", NilObj, s)
    ELSE IF At(s, h, obj.name) # {} THEN Resp("AlreadyExists", NilObj, s)
    ELSE LET new == Object(h.resource, h.ns, obj.name, obj.labels, rv)
         IN  Resp("nil", new, s \cup {new})

\* dr.Update(obj): NotFound when the name is gone, Conflict when obj carries
\* another resource version than the stored one, else the stored object is
\* replaced and stamped with a fresh resource version.
StoreUpdate(s, h, obj, rv) ==
    IF ~Addressable(h) THEN Resp("NotFound", NilObj, s)
    ELSE IF ~Fits(h, obj) THEN Resp("BadRequest", NilObj, s)
    ELSE IF At(s, h, obj.name) = {} THEN Resp("NotFound", NilObj, s)
    ELSE LET old == CHOOSE o \in At(s, h, obj.name) : TRUE
             new == Object(h.resource, h.ns, obj.name, obj.labels, rv)
         IN  IF obj.rv # old.rv THEN Resp("Conflict", NilObj, s)
             ELSE Resp("nil", new, (s \ {old}) \cup {new})

\* dr.Delete(name): NotFound when the name is absent, else it is removed.
StoreDelete(s, h, name) ==
    IF ~Addressable(h) \/ At(s, h, name) = {} THEN Resp("NotFound", NilObj, s)
    ELSE Resp("nil", NilObj, s \ At(s, h, name))

\* ListOptions.LabelSelector is parsed as a selector expression: a bare word
\* selects the objects that carry a label with that KEY, the empty string
\* selects every object.
Selects(selector, o) == selector = "" \/ \E l \in o.labels : l[1] = selector

\* dr.List(opts): the objects of the collection (of every namespace when the
\* handle has none) that the selector selects.
StoreList(s, h, selector) ==
    {o \in s : /\ o.res = h.resource
                /\ (h.ns = "" \/ o.ns = h.ns)
                /\ Selects(selector, o)}

\* Errors of the store that are neither AlreadyExists nor NotFound and that
\* any request may meet (permission denied, network failure, ...).
Faults == {"Forbidden"}
Outcomes == {"nil"} \cup Faults

\* labels["workflow_id"]: the value under that key, "" when there is none.
LabelValue(labels, key) ==
    IF \E l \in labels : l[1] = key
      THEN (CHOOSE l \in labels : l[1] = key)[2]
      ELSE ""

\* ---------------------------------------------------------------- state

VARIABLES
    store,      \* the objects the cluster holds
    nextRV,     \* the resource version of the store's next write
    discovery,  \* per kind: discovery queries sent to the cluster's catalog
    dr,         \* the package-level handle variable
    crashed,    \* the process has died of an unrecovered panic
    calls,      \* calls to ClusterOperations started so far
    pc,         \* per goroutine: where its call stands
    manifest,   \* per goroutine: the manifest argument
    verb,       \* per goroutine: the requestType argument
    nsArg,      \* per goroutine: the namespace argument
    cached,     \* per goroutine: kinds held by the call's own memory cache
    obj,        \* per goroutine: the decoded object
    result,     \* per goroutine: what the call returned
    bound,      \* per goroutine: the handle this call bound (history)
    reqs,       \* per goroutine: the requests this call sent (history)
    first,      \* per goroutine: how the identical preceding call ended (history)
    before,     \* per goroutine: the store when the call began (history)
    record,     \* the ConfigMap litmus-portal-config of the agent's namespace
    reg,        \* per goroutine: its last ClusterRegister or IsClusterConfirmed
    registered  \* ClusterRegister calls that returned true (history)

regVars == <<record, reg, registered>>

opVars == <<store, nextRV, discovery, dr, crashed, calls, pc, manifest, verb, nsArg,
            cached, obj, result, bound, reqs, first, before>>

vars == <<opVars, regVars>>

Result(o, err) == [obj |-> o, err |-> err]
NoResult == Result(NilObj, "none")

NoManifest == Manifest(FALSE, "", "", {})
Decoded(kind, name, labels, rv) == [kind |-> kind, name |-> name, labels |-> labels, rv |-> rv]
NoObj == Decoded("", "", {}, 0)

\* A request as the store sees it: the operation, the handle it is executed
\* against, the name (for a list: the selector) it addresses, and the error
\* of the store's answer.
Req(op, h, name, err) == [op |-> op, h |-> h, name |-> name, err |-> err]

\* The registration record: the Data of the ConfigMap, or none.
Record(confirmed, key, id) ==
    [present |-> TRUE, confirmed |-> confirmed, key |-> key, id |-> id]
NoRecord == [present |-> FALSE, confirmed |-> "", key |-> "", id |-> ""]

\* What a call of ClusterRegister or IsClusterConfirmed returned (ok, key,
\* err), with the record it met (saw), the fault its request met and the
\* clusterData it was given.
Reg(fn, ok, key, err, saw, fault, data) ==
    [fn |-> fn, ok |-> ok, key |-> key, err |-> err, saw |-> saw, fault |-> fault,
     data |-> data]
NoData == [KEY |-> "", CID |-> ""]
NoReg == Reg("", FALSE, "", "none", NoRecord, "nil", NoData)

InitOps ==
    /\ store \in {{}, Preexisting}
    /\ nextRV = FirstRV
    /\ discovery = [k \in Kinds |-> 0]
    /\ dr = NoHandle
    /\ crashed = FALSE
    /\ calls = 0
    /\ pc = [p \in Procs |-> "idle"]
    /\ manifest = [p \in Procs |-> NoManifest]
    /\ verb = [p \in Procs |-> ""]
    /\ nsArg = [p \in Procs |-> ""]
    /\ cached = [p \in Procs |-> {}]
    /\ obj = [p \in Procs |-> NoObj]
    /\ result = [p \in Procs |-> NoResult]
    /\ bound = [p \in Procs |-> NoHandle]
    /\ reqs = [p \in Procs |-> <<>>]
    /\ first = [p \in Procs |-> "none"]
    /\ before = [p \in Procs |-> {}]
    /\ reg = [p \in Procs |-> NoReg]
    /\ registered = 0

Init == InitOps /\ record = NoRecord

\* ------------------------------------------------------ ClusterOperations

\* The call returns (o, err) to its caller.
Finish(p, o, err) ==
    /\ pc' = [pc EXCEPT ![p] = "done"]
    /\ result' = [result EXCEPT ![p] = Result(o, err)]

\* Entry: JSONToYAML, the clients, a new mapper over a new memory cache, and
\* Decode. A document that does not decode ends the call with the error.
\* prev tells how the identical call before this one ended ("none": there
\* was none).
Begin(p, m, v, ns, prev) ==
    /\ ~crashed
    /\ calls < MaxCalls
    /\ calls' = calls + 1
    /\ manifest' = [manifest EXCEPT ![p] = m]
    /\ verb' = [verb EXCEPT ![p] = v]
    /\ nsArg' = [nsArg EXCEPT ![p] = ns]
    /\ cached' = [cached EXCEPT ![p] = {}]
    /\ bound' = [bound EXCEPT ![p] = NoHandle]
    /\ reqs' = [reqs EXCEPT ![p] = <<>>]
    /\ first' = [first EXCEPT ![p] = prev]
    /\ before' = [before EXCEPT ![p] = store]
    /\ IF m.json
         THEN /\ obj' = [obj EXCEPT ![p] = Decoded(m.kind, m.name, m.labels, 0)]
              /\ pc' = [pc EXCEPT ![p] = "resolve"]
              /\ result' = [result EXCEPT ![p] = NoResult]
         ELSE /\ obj' = [obj EXCEPT ![p] = NoObj]
              /\ Finish(p, NilObj, "DecodeError")
    /\ UNCHANGED regVars
    /\ UNCHANGED <<store, nextRV, discovery, dr, crashed>>

\* A caller calls ClusterOperations(manifest, requestType, namespace); a new
\* call runs on the lowest free goroutine.
Start(p) ==
    /\ pc[p] = "idle"
    /\ \A q \in Procs : q < p => pc[q] # "idle"
    /\ \E m \in Manifests, v \in Verbs, ns \in NsArgs : Begin(p, m, v, ns, "none")

\* A caller repeats the call it has just made, with the same arguments.
Again(p) ==
    /\ pc[p] = "done"
    /\ Begin(p, manifest[p], verb[p], nsArg[p],
             IF result[p].err # "nil" THEN "failed"
             ELSE IF result[p].obj = NilObj THEN "nil"
             ELSE "object")

\* Resolve with the error of mapper.RESTMapping ignored.
Resolve_ErrIgnored(p) ==
    /\ ~crashed
    /\ pc[p] = "resolve"
    /\ LET k == obj[p].kind
       IN  /\ discovery' = IF k \in cached[p] THEN discovery
                                                ELSE [discovery EXCEPT ![k] = @ + 1]
           /\ cached' = [cached EXCEPT ![p] = @ \cup {k}]
           /\ pc' = [pc EXCEPT ![p] = "bind"]
    /\ UNCHANGED regVars
    /\ UNCHANGED <<store, nextRV, dr, crashed, calls, manifest, verb, nsArg, obj,
                   result, bound, reqs, first, before>>

\* mapper.RESTMapping: served from the call's memory cache when it holds the
\* kind, else by a discovery query; an unknown kind ends the call.
Resolve(p) ==
    /\ ~crashed
    /\ pc[p] = "resolve"
    /\ LET k == obj[p].kind
       IN  /\ discovery' = IF k \in cached[p] THEN discovery
                                                ELSE [discovery EXCEPT ![k] = @ + 1]
           /\ cached' = [cached EXCEPT ![p] = @ \cup {k}]
           /\ IF Catalog(k).found
                THEN pc' = [pc EXCEPT ![p] = "bind"] /\ UNCHANGED result
                ELSE Finish(p, NilObj, "NoMatch")
    /\ UNCHANGED regVars
    /\ UNCHANGED <<store, nextRV, dr, crashed, calls, manifest, verb, nsArg, obj,
                   bound, reqs, first, before>>

\* BindHandle with .Namespace(namespace) whatever the scope.
BindHandle_AlwaysNamespace(k, ns) == Handle(Catalog(k).resource, ns)

\* BindHandle without .Namespace(namespace).
BindHandle_NoNamespace(k, ns) == Handle(Catalog(k).resource, "")

\* The handle for a mapping: restricted to the namespace argument for a
\* namespaced type, the bare resource client for a cluster-wide one.
BindHandle(k, ns) ==
    IF Catalog(k).scope = "namespace"
      THEN Handle(Catalog(k).resource, ns)
      ELSE Handle(Catalog(k).resource, "")

RunKinds == {"CronWorkflow", "Workflow"}

\* The handle is stored in the package-level variable dr.
Bind(p) ==
    /\ ~crashed
    /\ pc[p] = "bind"
    /\ dr' = BindHandle(obj[p].kind, nsArg[p])
    /\ bound' = [bound EXCEPT ![p] = BindHandle(obj[p].kind, nsArg[p])]
    /\ pc' = [pc EXCEPT ![p] = IF obj[p].kind \in RunKinds THEN "list" ELSE "dispatch"]
    /\ UNCHANGED regVars
    /\ UNCHANGED <<store, nextRV, discovery, crashed, calls, manifest, verb, nsArg,
                   cached, obj, result, reqs, first, before>>

\* Run kinds: list by the workflow_id label's value on whatever handle dr
\* holds now. A list error returns (nil, nil); Items[0] of an empty list is
\* an index out of range, which panics; else the object takes the name of
\* the first item (the listing order is the store's).
ListTargets(p) ==
    /\ ~crashed
    /\ pc[p] = "list"
    /\ LET selector == LabelValue(obj[p].labels, "workflow_id")
           items == StoreList(store, dr, selector)
       IN  \E f \in Outcomes :
             /\ reqs' = [reqs EXCEPT ![p] = Append(@, Req("list", dr, selector, f))]
             /\ IF f # "nil"
                  THEN Finish(p, NilObj, "nil") /\ UNCHANGED <<obj, crashed>>
                ELSE IF items = {}
                  THEN /\ crashed' = TRUE
                       /\ pc' = [pc EXCEPT ![p] = "panic"]
                       /\ UNCHANGED <<obj, result>>
                ELSE \E o \in items :
                       /\ obj' = [obj EXCEPT ![p].name = o.name]
                       /\ pc' = [pc EXCEPT ![p] = "dispatch"]
                       /\ UNCHANGED <<result, crashed>>
    /\ UNCHANGED regVars
    /\ UNCHANGED <<store, nextRV, discovery, dr, calls, manifest, verb, nsArg,
                   cached, bound, first, before>>

\* ----------------------------------------------------------- applyRequest

\* The store's answer to a request: the fault it meets, else what the store
\* itself answers.
Answer(f, real) == IF f = "nil" THEN real ELSE Resp(f, NilObj, store)

\* applyCreate without the IsAlreadyExists branch.
applyCreate_NoAbsorb(resp) ==
    IF resp.err # "nil" THEN Result(NilObj, resp.err)
    ELSE Result(resp.obj, "nil")

\* What applyRequest returns for the answer to dr.Create.
applyCreate(resp) ==
    IF resp.err = "AlreadyExists" THEN Result(NilObj, "nil")
    ELSE IF resp.err # "nil" THEN Result(NilObj, resp.err)
    ELSE Result(resp.obj, "nil")

\* applyDelete without the IsNotFound branch.
applyDelete_NoAbsorb(resp) ==
    IF resp.err # "nil" THEN Result(NilObj, resp.err)
    ELSE Result(EmptyObj, "nil")

\* What applyRequest returns for the answer to dr.Delete.
applyDelete(resp) ==
    IF resp.err = "NotFound" THEN Result(NilObj, "nil")
    ELSE IF resp.err # "nil" THEN Result(NilObj, resp.err)
    ELSE Result(EmptyObj, "nil")

\* applyGet without the IsNotFound branch.
applyGet_NoAbsorb(resp) ==
    IF resp.err # "nil" THEN Result(NilObj, resp.err)
    ELSE Result(resp.obj, "nil")

\* What applyRequest returns for the answer to dr.Get (requestType "get").
applyGet(resp) ==
    IF resp.err = "NotFound" THEN Result(NilObj, "nil")
    ELSE IF resp.err # "nil" THEN Result(NilObj, resp.err)
    ELSE Result(resp.obj, "nil")

\* applyUpdateGet without the IsNotFound branch.
applyUpdateGet_NoAbsorb(resp) == Result(NilObj, resp.err)

\* requestType "update", after its dr.Get: what it returns when the answer
\* ends the call.
applyUpdateGet(resp) ==
    IF resp.err = "NotFound" THEN Result(NilObj, "nil")
    ELSE Result(NilObj, resp.err)

\* applyUpdate with an IsNotFound branch like the other requests have.
applyUpdate_AbsorbNotFound(resp) ==
    IF resp.err = "NotFound" THEN Result(NilObj, "nil")
    ELSE IF resp.err # "nil" THEN Result(NilObj, resp.err)
    ELSE Result(resp.obj, "nil")

\* What applyRequest returns for the answer to dr.Update.
applyUpdate(resp) ==
    IF resp.err # "nil" THEN Result(NilObj, resp.err)
    ELSE Result(resp.obj, "nil")

\* The store after a request, and the request entered in the call's history.
\* The update branch without obj.SetResourceVersion.
Stamped_Unset(o, getObj) == o

\* obj.SetResourceVersion(getObj.GetResourceVersion()).
Stamped(o, getObj) == [o EXCEPT !.rv = getObj.rv]

Sent(p, op, resp) ==
    /\ store' = resp.store
    /\ nextRV' = IF resp.store # store /\ op # "delete" THEN nextRV + 1 ELSE nextRV
    /\ reqs' = [reqs EXCEPT ![p] = Append(@, Req(op, dr, obj[p].name, resp.err))]

\* applyRequest up to its first request and what follows from the answer;
\* every dr.X is executed against the handle dr holds at that moment.
Dispatch(p) ==
    /\ ~crashed
    /\ pc[p] = "dispatch"
    /\ \E f \in Outcomes :
         CASE verb[p] = "create" ->
                LET resp == Answer(f, StoreCreate(store, dr, obj[p], nextRV))
                IN  /\ Sent(p, "create", resp)
                    /\ Finish(p, applyCreate(resp).obj, applyCreate(resp).err)
                    /\ UNCHANGED obj
           [] verb[p] = "update" ->
                LET resp == Answer(f, StoreGet(store, dr, obj[p].name))
                IN  /\ Sent(p, "get", resp)
                    /\ IF resp.err # "nil"
                         THEN /\ Finish(p, applyUpdateGet(resp).obj, applyUpdateGet(resp).err)
                              /\ UNCHANGED obj
                         ELSE /\ obj' = [obj EXCEPT ![p] = Stamped(@, resp.obj)]
                              /\ pc' = [pc EXCEPT ![p] = "update"]
                              /\ UNCHANGED result
           [] verb[p] = "delete" ->
                LET resp == Answer(f, StoreDelete(store, dr, obj[p].name))
                IN  /\ Sent(p, "delete", resp)
                    /\ Finish(p, applyDelete(resp).obj, applyDelete(resp).err)
                    /\ UNCHANGED obj
           [] verb[p] = "get" ->
                LET resp == Answer(f, StoreGet(store, dr, obj[p].name))
                IN  /\ Sent(p, "get", resp)
                    /\ Finish(p, applyGet(resp).obj, applyGet(resp).err)
                    /\ UNCHANGED obj
           [] OTHER ->
                /\ Finish(p, NilObj, "InvalidRequest")
                /\ UNCHANGED <<store, nextRV, reqs, obj>>
    /\ UNCHANGED regVars
    /\ UNCHANGED <<discovery, dr, crashed, calls, manifest, verb, nsArg, cached,
                   bound, first, before>>

\* SubmitUpdate sending dr.Update again after an error.
SubmitUpdate_Retry(p) ==
    /\ ~crashed
    /\ pc[p] = "update"
    /\ \E f \in Outcomes :
         LET resp == Answer(f, StoreUpdate(store, dr, obj[p], nextRV))
         IN  /\ Sent(p, "update", resp)
             /\ IF resp.err = "nil"
                  THEN Finish(p, applyUpdate(resp).obj, applyUpdate(resp).err)
                  ELSE UNCHANGED <<pc, result>>
    /\ UNCHANGED regVars
    /\ UNCHANGED <<discovery, dr, crashed, calls, manifest, verb, nsArg, cached,
                   obj, bound, first, before>>

\* requestType "update" after a successful dr.Get: the object, stamped with
\* the resource version that was read, is submitted with dr.Update.
SubmitUpdate(p) ==
    /\ ~crashed
    /\ pc[p] = "update"
    /\ \E f \in Outcomes :
         LET resp == Answer(f, StoreUpdate(store, dr, obj[p], nextRV))
         IN  /\ Sent(p, "update", resp)
             /\ Finish(p, applyUpdate(resp).obj, applyUpdate(resp).err)
    /\ UNCHANGED regVars
    /\ UNCHANGED <<discovery, dr, crashed, calls, manifest, verb, nsArg, cached,
                   obj, bound, first, before>>

\* The caller has taken the result; the goroutine is free for another call.
Return(p) ==
    /\ ~crashed
    /\ pc[p] = "done"
    /\ pc' = [pc EXCEPT ![p] = "idle"]
    /\ manifest' = [manifest EXCEPT ![p] = NoManifest]
    /\ verb' = [verb EXCEPT ![p] = ""]
    /\ nsArg' = [nsArg EXCEPT ![p] = ""]
    /\ cached' = [cached EXCEPT ![p] = {}]
    /\ obj' = [obj EXCEPT ![p] = NoObj]
    /\ result' = [result EXCEPT ![p] = NoResult]
    /\ bound' = [bound EXCEPT ![p] = NoHandle]
    /\ reqs' = [reqs EXCEPT ![p] = <<>>]
    /\ first' = [first EXCEPT ![p] = "none"]
    /\ before' = [before EXCEPT ![p] = {}]
    /\ UNCHANGED regVars
    /\ UNCHANGED <<store, nextRV, discovery, dr, crashed, calls>>

\* One call, from entry to return.
Call(p) ==
    \/ Start(p)
    \/ Resolve(p)
    \/ Bind(p)
    \/ ListTargets(p)
    \/ Dispatch(p)
    \/ SubmitUpdate(p)

\* One caller: calls follow one another, each begun after the one before it
\* has returned.
Next ==
    \/ Call(1)
    \/ Again(1)
    \/ Return(1)

Spec == Init /\ [][Next]_vars

\* Two callers, one call each, their steps interleaved.
ConcNext == \E p \in Procs : Call(p)

ConcSpec == Init /\ [][ConcNext]_vars

\* The same call made twice from the same store, the second time with
\* another namespace argument: goroutine 1 makes the call, the store is put
\* back as the call found it, and goroutine 2 makes the call again. The
\* store the first call left is kept in before[2].
TwinStart ==
    /\ pc[1] = "done"
    /\ pc[2] = "idle"
    /\ \E ns \in NsArgs \ {nsArg[1]} : Begin(2, manifest[1], verb[1], ns, "none")

Rewound == store = before[1] /\ nextRV = FirstRV

Rewind ==
    /\ pc[2] = "resolve"
    /\ ~Rewound
    /\ store' = before[1]
    /\ nextRV' = FirstRV
    /\ UNCHANGED regVars
    /\ UNCHANGED <<discovery, dr, crashed, calls, pc, manifest, verb, nsArg,
                   cached, obj, result, bound, reqs, first, before>>

Replay ==
    /\ Rewound
    /\ \/ Resolve(2)
       \/ Bind(2)
       \/ ListTargets(2)
       \/ Dispatch(2)
       \/ SubmitUpdate(2)

TwinNext ==
    \/ Call(1)
    \/ TwinStart
    \/ Rewind
    \/ Replay

TwinSpec == Init /\ [][TwinNext]_vars

\* ------------------------------------- ClusterRegister, IsClusterConfirmed

Keys == {"k1", "k2"}
Ids == {"c1", "c2"}

\* The clusterData argument, by the two entries ClusterRegister reads.
ClusterData == [KEY : Keys, CID : Ids]

\* The records the agent's namespace may hold when the subscriber starts.
Records == {NoRecord, Record("true", "k0", "c0"), Record("false", "", "")}

\* GetGenericK8sClient fails, or the request does.
RegOutcomes == {"nil", "NoClient"} \cup Faults

\* Create replaced by a write that overwrites the record.
CreateRecord_Overwrite(rec, new) == [err |-> "nil", rec |-> new]

\* ConfigMaps(AgentNamespace).Create: the store adds the ConfigMap unless it
\* holds one of that name.
CreateRecord(rec, new) ==
    IF rec.present
      THEN [err |-> "AlreadyExists", rec |-> rec]
      ELSE [err |-> "nil", rec |-> new]

\* ConfigMaps(AgentNamespace).Get: the ConfigMap, or an empty ConfigMap and
\* the error.
GetRecord(rec) ==
    IF rec.present
      THEN [err |-> "nil", cm |-> rec]
      ELSE [err |-> "NotFound", cm |-> NoRecord]

ClusterRegister(p) ==
    /\ registered < MaxCalls
    /\ \E data \in ClusterData, f \in RegOutcomes :
          LET new == Record("true", data.KEY, data.CID)
              resp == IF f = "nil" THEN CreateRecord(record, new)
                      ELSE [err |-> f, rec |-> record]
          IN  /\ record' = resp.rec
              /\ reg' = [reg EXCEPT ![p] =
                            Reg("ClusterRegister", resp.err = "nil", "", resp.err,
                                record, f, data)]
              /\ registered' = IF resp.err = "nil" THEN registered + 1 ELSE registered
    /\ UNCHANGED opVars

Confirmed(ok, key, err) == [ok |-> ok, key |-> key, err |-> err]

\* IsClusterConfirmed with not-found handled as any other error.
isClusterConfirmed_NotFoundFails(getCM, err) ==
    IF getCM.confirmed = "true" THEN Confirmed(TRUE, getCM.key, "nil")
    ELSE IF err # "nil" THEN Confirmed(FALSE, "", err)
    ELSE Confirmed(FALSE, "", "nil")

\* The branches of IsClusterConfirmed on (getCM, err), in the code's order.
isClusterConfirmed(getCM, err) ==
    IF err = "NotFound" THEN Confirmed(FALSE, "", "nil")
    ELSE IF getCM.confirmed = "true" THEN Confirmed(TRUE, getCM.key, "nil")
    ELSE IF err # "nil" THEN Confirmed(FALSE, "", err)
    ELSE Confirmed(FALSE, "", "nil")

IsClusterConfirmed(p) ==
    /\ \E f \in RegOutcomes :
          LET resp == IF f = "nil" THEN GetRecord(record)
                      ELSE [err |-> f, cm |-> NoRecord]
              out  == IF f = "NoClient" THEN Confirmed(FALSE, "", f)
                      ELSE isClusterConfirmed(resp.cm, resp.err)
          IN  reg' = [reg EXCEPT ![p] =
                        Reg("IsClusterConfirmed", out.ok, out.key, out.err,
                            record, f, NoData)]
    /\ UNCHANGED <<record, registered>>
    /\ UNCHANGED opVars

RegInit == InitOps /\ store = {} /\ record \in Records

RegNext == \E p \in Procs : ClusterRegister(p) \/ IsClusterConfirmed(p)

RegSpec == RegInit /\ [][RegNext]_vars

\* ------------------------------------------------------------ properties

\* The collection a manifest is meant for under a namespace argument.
Target(m, ns) ==
    Handle(Catalog(m.kind).resource,
           IF Catalog(m.kind).scope = "namespace" THEN ns ELSE "")

\* The stored objects a call's manifest names, under the collection the
\* manifest is meant for.
Instances(p) == At(store, Target(manifest[p], nsArg[p]), manifest[p].name)

\* The manifest's target was absent from the store when the call began.
AbsentBefore(p) == At(before[p], Target(manifest[p], nsArg[p]), manifest[p].name) = {}

\* The call is one the store can serve: the manifest decodes, its kind is in
\* the catalog, and a namespaced type comes with a namespace.
Servable(p) ==
    /\ manifest[p].json
    /\ Catalog(manifest[p].kind).found
    /\ Addressable(Target(manifest[p], nsArg[p]))

\* The errors among the store's answers to the call's requests.
Answered(p) == {reqs[p][i].err : i \in DOMAIN reqs[p]} \ {"nil"}

\* A create call has returned without the store having answered any of its
\* requests with an error other than already-exists.
CreateReturned(p) ==
    /\ pc[p] = "done"
    /\ verb[p] = "create"
    /\ Servable(p)
    /\ Answered(p) \subseteq {"AlreadyExists"}

\* What C1 says of a returned create call: begun with the target absent it
\* returns the created object, which is then the one stored instance; made
\* again after it returned the object, it returns (nil, nil) and the store
\* still holds exactly one instance.
CreateTwice(p) ==
    /\ (first[p] = "none" /\ AbsentBefore(p)) =>
          /\ result[p].err = "nil"
          /\ Instances(p) = {result[p].obj}
          /\ before[p] = store \ {result[p].obj}
    /\ first[p] = "object" =>
          /\ result[p] = Result(NilObj, "nil")
          /\ Cardinality(Instances(p)) = 1
          /\ store = before[p]

C2_OwnHandle ==
    \A p \in Procs : \A i \in DOMAIN reqs[p] : reqs[p][i].h = bound[p]

\* The call's label-filtered list was answered, and with no instance.
ListedNone(p) ==
    /\ reqs[p] # <<>>
    /\ reqs[p][1].op = "list"
    /\ reqs[p][1].err = "nil"
    /\ StoreList(before[p], reqs[p][1].h, reqs[p][1].name) = {}

\* C3: a call whose label-filtered list returns no instance returns a
\* TargetNotFound error and sends no request but the list.
C3_TargetNotFound ==
    \A p \in Procs :
        ListedNone(p) =>
            /\ pc[p] = "done"
            /\ result[p].err = "TargetNotFound"
            /\ Len(reqs[p]) = 1

\* C7: over any sequence of calls, the calls that carry one kind of the
\* catalog send at most one discovery query for it to the cluster.
C7_Memoizing ==
    \A k \in Kinds : Catalog(k).found => discovery[k] <= 1

\* C8: no call ends in a panic; the process never crashes.
C8_NeverCrashes ==
    ~crashed /\ \A p \in Procs : pc[p] # "panic"

\* C10: a call for a namespaced type with the empty namespace sends no
\* request to the store, and returns an InvalidNamespace error.
C10_InvalidNamespace ==
    \A p \in Procs :
        ( /\ manifest[p].json
          /\ Catalog(manifest[p].kind).found
          /\ Catalog(manifest[p].kind).scope = "namespace"
          /\ nsArg[p] = "" ) =>
            /\ reqs[p] = <<>>
            /\ pc[p] = "done" => result[p].err = "InvalidNamespace"

\* The stored objects the dispatcher addresses: those of the object's name
\* under the handle the call bound, in the store as the call found it.
DispatchTarget(p) == At(before[p], bound[p], obj[p].name)

\* The call has returned from applyRequest after sending request op.
Dispatched(p, v, op) ==
    /\ pc[p] = "done"
    /\ verb[p] = v
    /\ \E i \in DOMAIN reqs[p] : reqs[p][i].op = op

LastReq(p) == reqs[p][Len(reqs[p])]

\* The errors applyRequest absorbs: already-exists on create, not-found on
\* get (that of "get" and the one that opens "update") and on delete.
Absorbed(r) ==
    \/ r.op = "create" /\ r.err = "AlreadyExists"
    \/ r.op \in {"get", "delete"} /\ r.err = "NotFound"

\* C9: when a request of the dispatcher is answered with an error that is
\* not absorbed, the call returns that same error and a nil result.
C9_ErrorsPropagate ==
    \A p \in Procs :
        ( /\ pc[p] = "done"
          /\ reqs[p] # <<>>
          /\ LastReq(p).op # "list"
          /\ LastReq(p).err # "nil"
          /\ ~Absorbed(LastReq(p)) ) =>
            result[p] = Result(NilObj, LastReq(p).err)

\* C9's case: an update has returned the conflict its dr.Update met.
C9_Witness ==
    \E p \in Procs :
        /\ pc[p] = "done"
        /\ reqs[p] # <<>>
        /\ LastReq(p).op = "update"
        /\ LastReq(p).err = "Conflict"
        /\ result[p] = Result(NilObj, "Conflict")

\* The call is for a namespaced type of the catalog, under a namespace.
InNamespace(p) ==
    /\ manifest[p].json
    /\ Catalog(manifest[p].kind).found
    /\ Catalog(manifest[p].kind).scope = "namespace"
    /\ nsArg[p] # ""

\* The objects of a store outside one collection of one namespace.
Outside(s, resource, ns) == {o \in s : ~(o.res = resource /\ o.ns = ns)}

\* C11: a call for a namespaced type under namespace ns sends every request
\* to that type's collection in ns; a create that the store accepts adds
\* the object there and returns it; whatever the call does, the objects of
\* every other namespace (and collection) stay as they were, and no object
\* of theirs is returned.
C11_NamespaceOnly ==
    \A p \in Procs :
        InNamespace(p) =>
            LET resource == Catalog(manifest[p].kind).resource
            IN  /\ \A i \in DOMAIN reqs[p] : reqs[p][i].h = Handle(resource, nsArg[p])
                /\ Outside(store, resource, nsArg[p]) = Outside(before[p], resource, nsArg[p])
                /\ (pc[p] = "done" /\ result[p].obj \notin {NilObj, EmptyObj}) =>
                      /\ result[p].obj.res = resource
                      /\ result[p].obj.ns = nsArg[p]
                /\ ( /\ pc[p] = "done"
                     /\ verb[p] = "create"
                     /\ reqs[p] # <<>>
                     /\ Answered(p) = {} ) =>
                      /\ result[p].obj = Object(resource, nsArg[p], obj[p].name,
                                                obj[p].labels, result[p].obj.rv)
                      /\ store = before[p] \cup {result[p].obj}
                      /\ result[p].obj \notin before[p]

\* C11's case: ConfigMap a has been created under ns1 and returned, while
\* the store holds a ConfigMap of the same name in ns2.
C11_Witness ==
    \E p \in Procs :
        /\ InNamespace(p)
        /\ pc[p] = "done"
        /\ verb[p] = "create"
        /\ manifest[p].kind = "ConfigMap"
        /\ nsArg[p] = "ns1"
        /\ result[p].obj \in store \ before[p]
        /\ \E o \in store : o.res = "configmaps" /\ o.ns = "ns2" /\ o.name = manifest[p].name

\* The requests of a call that the store or the transport failed.
FaultsAt(p) == {i \in DOMAIN reqs[p] : reqs[p][i].err \in Faults}

\* Both runs of the twin have returned, and met the same faults.
TwinsDone ==
    /\ pc[1] = "done"
    /\ pc[2] = "done"
    /\ manifest[2] = manifest[1]
    /\ verb[2] = verb[1]
    /\ nsArg[2] # nsArg[1]
    /\ FaultsAt(1) = FaultsAt(2)

\* C12: for a cluster-wide type the namespace argument is ignored: two calls
\* that differ only in it, made from the same store and meeting the same
\* faults, send the same requests (operation, handle, name, answer), return
\* the same result and leave the same store.
C12_NamespaceIgnored ==
    ( /\ TwinsDone
      /\ manifest[1].json
      /\ Catalog(manifest[1].kind).found
      /\ Catalog(manifest[1].kind).scope = "root" ) =>
        /\ reqs[2] = reqs[1]
        /\ result[2] = result[1]
        /\ store = before[2]

\* C12's case: a Namespace has been created by both runs, under different
\* namespace arguments, the store put back in between.
C12_Witness ==
    /\ TwinsDone
    /\ manifest[1].kind = "Namespace"
    /\ verb[1] = "create"
    /\ nsArg[1] # ""
    /\ nsArg[2] # ""
    /\ result[2].obj \in store \ before[1]
    /\ result[1].obj = result[2].obj

\* C13 (state): a ClusterRegister that met a record failed with an error; one
\* that met none, and no fault, returned true and the record is the one it
\* wrote; at most one call has returned true.
C13_OneRegistration ==
    /\ registered <= 1
    /\ \A p \in Procs :
          reg[p].fn = "ClusterRegister" =>
            /\ reg[p].saw.present => ~reg[p].ok /\ reg[p].err \notin {"nil", "none"}
            /\ (~reg[p].saw.present /\ reg[p].fault = "nil") =>
                  /\ reg[p].ok
                  /\ reg[p].err = "nil"
                  /\ record = Record("true", reg[p].data.KEY, reg[p].data.CID)
            /\ reg[p].ok <=> reg[p].err = "nil"

\* C13: ClusterRegister creates the record if there is none and fails with
\* an error if there is one; over any sequence of ClusterRegister calls at
\* most one returns success; and no step changes a record that exists (its
\* confirmed flag, cluster key and cluster id stay as first written).
C13_RegisterOnce ==
    /\ []C13_OneRegistration
    /\ [][record.present => record' = record]_vars

\* C13's case: one goroutine has registered, the other has tried with other
\* cluster data and been refused, and the record is the first one's.
C13_Witness ==
    \E p, q \in Procs :
        /\ reg[p].fn = "ClusterRegister" /\ reg[p].ok
        /\ reg[q].fn = "ClusterRegister" /\ ~reg[q].ok
        /\ reg[q].err = "AlreadyExists"
        /\ reg[q].data.KEY # reg[p].data.KEY
        /\ record = Record("true", reg[p].data.KEY, reg[p].data.CID)

\* C14: IsClusterConfirmed returns (true, cluster_key, nil) when the record
\* it reads has is_cluster_confirmed "true", (false, "", nil) when there is
\* no record (or one not confirmed), and (false, "", err) when the read
\* fails otherwise; a failed read never reports true.
C14_IsClusterConfirmed ==
    \A p \in Procs :
        reg[p].fn = "IsClusterConfirmed" =>
            LET r == reg[p]
                out == Confirmed(r.ok, r.key, r.err)
            IN  /\ (r.fault = "nil" /\ r.saw.present /\ r.saw.confirmed = "true") =>
                      out = Confirmed(TRUE, r.saw.key, "nil")
                /\ (r.fault = "nil" /\ r.saw.present /\ r.saw.confirmed # "true") =>
                      out = Confirmed(FALSE, "", "nil")
                /\ (r.fault = "nil" /\ ~r.saw.present) =>
                      out = Confirmed(FALSE, "", "nil")
                /\ r.fault # "nil" => out = Confirmed(FALSE, "", r.fault)

\* C14's case: a record written by ClusterRegister has been read as
\* confirmed, with its key.
C14_Witness ==
    \E p, q \in Procs :
        /\ reg[q].fn = "ClusterRegister" /\ reg[q].ok
        /\ reg[p].fn = "IsClusterConfirmed"
        /\ reg[p].ok
        /\ reg[p].key = reg[q].data.KEY
        /\ reg[p].err = "nil"

\* C15 (the get): the object that goes on to dr.Update carries the resource
\* version of the object its own dr.Get has just read.
UpdateReads(p) ==
    (pc[p] = "dispatch" /\ pc'[p] = "update") =>
        \E o \in At(store, dr, obj[p].name) : obj'[p].rv = o.rv

\* C15 (the update): if the stored target no longer has the version the
\* call read, the store is left as it is and the call returns an error, a
\* conflict unless the request met a fault or a handle of another type; an
\* update that succeeds replaces exactly the version that was read.
UpdateWrites(p) ==
    (pc[p] = "update" /\ pc'[p] = "done") =>
        LET cur == At(store, dr, obj[p].name)
            stale == \E o \in cur : o.rv # obj[p].rv
        IN  /\ stale =>
                  /\ store' = store
                  /\ result'[p].obj = NilObj
                  /\ result'[p].err # "nil"
                  /\ result'[p].err = reqs'[p][Len(reqs'[p])].err
                  /\ (Fits(dr, obj[p]) /\ result'[p].err \notin Faults) =>
                        result'[p].err = "Conflict"
            /\ result'[p].err = "nil" =>
                  \E o \in cur :
                      /\ o.rv = obj[p].rv
                      /\ result'[p].obj.rv = nextRV
                      /\ store' = (store \ {o}) \cup {result'[p].obj}

\* C15: an update of an existing target carries the resource version read by
\* the call's own preceding get; if another writer changes the target
\* between the get and the update, the store rejects the update, the
\* conflict is returned as the error, and the other write is kept.
C15_NoLostUpdate == [][\A p \in Procs : UpdateReads(p) /\ UpdateWrites(p)]_vars

\* C15's case: two updates of one target overlapped; one was written and is
\* in the store, the other was refused with a conflict.
C15_Witness ==
    \E p, q \in Procs :
        /\ p # q
        /\ pc[p] = "done" /\ pc[q] = "done"
        /\ verb[p] = "update" /\ verb[q] = "update"
        /\ result[p] = Result(NilObj, "Conflict")
        /\ result[q].err = "nil"
        /\ result[q].obj \in store
        /\ result[q].obj.name = obj[p].name
        /\ result[q].obj.rv # obj[p].rv
        /\ bound[p] = bound[q]

\* Every request of the call was executed against the handle the call bound.
OwnRequests(p) == \A i \in DOMAIN reqs[p] : reqs[p][i].h = bound[p]

\* C16: an update whose target is deleted by another caller, before the get
\* or between the get and the update, returns the updated object or
\* (nil, nil), never a not-found error.
C16_UpdateNeverNotFound ==
    \A p \in Procs :
        (pc[p] = "done" /\ verb[p] = "update" /\ reqs[p] # <<>> /\ OwnRequests(p)) =>
            /\ result[p].err # "NotFound"
            /\ LastReq(p).err = "NotFound" => result[p] = Result(NilObj, "nil")

\* The call's label-filtered list met a store or transport error.
ListFailed(p) ==
    /\ reqs[p] # <<>>
    /\ reqs[p][1].op = "list"
    /\ reqs[p][1].err # "nil"

\* C17: when the label-filtered list fails, ClusterOperations returns a
\* non-nil error that is not TargetNotFound; it does not return a nil error.
C17_ListErrorReturned ==
    \A p \in Procs :
        (ListFailed(p) /\ pc[p] = "done") =>
            result[p].err \notin {"nil", "TargetNotFound"}

\* The instances of the manifest's type, in the call's namespace, whose
\* workflow_id label equals the manifest's, as the call found the store.
Matching(p) ==
    {o \in StoreList(before[p], Target(manifest[p], nsArg[p]), "") :
        <<"workflow_id", LabelValue(manifest[p].labels, "workflow_id")>> \in o.labels}

\* C18: for Workflow and CronWorkflow, when at least one instance carries
\* the manifest's workflow_id value and the list is answered, the object's
\* name becomes the name of such an instance before the operation is
\* dispatched; for any other kind no list is sent and the name is the
\* manifest's.
C18_NamedByWorkflowId ==
    \A p \in Procs :
        Servable(p) =>
            /\ ( /\ manifest[p].kind \in RunKinds
                 /\ Matching(p) # {}
                 /\ reqs[p] # <<>>
                 /\ reqs[p][1].err = "nil" ) =>
                    /\ pc[p] # "panic"
                    /\ reqs[p][1].op = "list"
                    /\ obj[p].name \in {o.name : o \in Matching(p)}
            /\ manifest[p].kind \notin RunKinds =>
                    /\ \A i \in DOMAIN reqs[p] : reqs[p][i].op # "list"
                    /\ obj[p].name = manifest[p].name
                    /\ obj[p].labels = manifest[p].labels

\* The call's manifest does not decode, or its kind is not in the catalog.
Undispatchable(p) ==
    /\ pc[p] # "idle"
    /\ ~manifest[p].json \/ ~Catalog(manifest[p].kind).found

\* C19 (state): such a call gets no further than the mapping, has sent no
\* request and bound no handle, has left the store as it found it, and
\* returns (nil, DecodeError) or (nil, NoMatch).
C19_NothingSent ==
    \A p \in Procs :
        Undispatchable(p) =>
            /\ pc[p] \in {"resolve", "done"}
            /\ reqs[p] = <<>>
            /\ bound[p] = NoHandle
            /\ store = before[p]
            /\ pc[p] = "done" =>
                  result[p] = Result(NilObj, IF manifest[p].json THEN "NoMatch"
                                                                ELSE "DecodeError")

\* C19: a call that fails before dispatch (decode error, unknown resource
\* type) returns a non-nil error, sends no list, get, create, update or
\* delete request, and no step of it rebinds the process-wide handle.
C19_NoEffectBeforeDispatch ==
    /\ []C19_NothingSent
    /\ [][\A p \in Procs : Undispatchable(p)' => (dr' = dr /\ store' = store)]_vars

\* C19's case: after a call that bound the handle, a call for a kind the
\* catalog does not have has returned NoMatch, the handle still bound.
C19_Witness ==
    \E p \in Procs :
        /\ Undispatchable(p)
        /\ manifest[p].json
        /\ pc[p] = "done"
        /\ result[p].err = "NoMatch"
        /\ dr # NoHandle
        /\ calls = 2

\* The requests that change the store.
Mutating == {"create", "update", "delete"}

\* The positions of a call's mutating requests in its log.
Mutations(p) == {i \in DOMAIN reqs[p] : reqs[p][i].op \in Mutating}

\* C20: a call sends at most one create, update or delete request; a
\* request answered with an error (absorbed or not) is the call's last and
\* the call has returned; a call with a verb other than create, update, get
\* and delete sends no mutating request and, when it reaches the dispatcher,
\* returns the Invalid Request error.
C20_NoRetry ==
    \A p \in Procs :
        /\ Cardinality(Mutations(p)) <= 1
        /\ \A i \in DOMAIN reqs[p] :
              reqs[p][i].err # "nil" => (i = Len(reqs[p]) /\ pc[p] = "done")
        /\ verb[p] \notin {"create", "update", "get", "delete"} =>
              /\ Mutations(p) = {}
              /\ ( /\ pc[p] = "done"
                   /\ manifest[p].json
                   /\ Catalog(manifest[p].kind).found
                   /\ Answered(p) = {} ) =>
                     result[p] = Result(NilObj, "InvalidRequest")

\* C20's case: one call's update request has failed after its get, and the
\* call has returned with one mutating request sent; another call with the
\* verb "patch" has returned Invalid Request having sent only its list.
C20_Witness ==
    \E p, q \in Procs :
        /\ pc[p] = "done" /\ pc[q] = "done"
        /\ verb[p] = "update"
        /\ Len(reqs[p]) = 2
        /\ reqs[p][2].op = "update"
        /\ reqs[p][2].err \in Faults
        /\ verb[q] = "patch"
        /\ result[q] = Result(NilObj, "InvalidRequest")
        /\ Len(reqs[q]) = 1
        /\ reqs[q][1].op = "list"

====
